---------------------------- MODULE Spec2Model ----------------------------
(***************************************************************************)
(* A model of the backblaze-b2 client (zaxbux/backblaze-b2):               *)
(*                                                                         *)
(*   - the request pipeline of the B2 client: the request interceptor,     *)
(*     the response interceptor handleResponseError and B2.authorize       *)
(*     (specification Spec);                                               *)
(*   - File.upload, the choice between uploadSingle and uploadLarge        *)
(*     (specification SpecPolicy);                                         *)
(*   - File.uploadLarge, its 'readable' and 'end' stream handlers          *)
(*     (specification SpecLarge);                                          *)
(*   - LargeFileActions.finish and getPartSha1Array on arbitrary           *)
(*     manifests (specification SpecFinish);                               *)
(*   - the same request pipeline on a client constructed with              *)
(*     options.authorization (specification SpecSession);                  *)
(*   - LargeFileActions.listParts and listAllParts (specification          *)
(*     SpecList);                                                          *)
(*   - the argument tests of the actions, new B2(credentials) and          *)
(*     getAccountAuthorizationHeader (specification SpecArgs);             *)
(*   - KeyActions.list and listAll (specification SpecKeys).               *)
(*                                                                         *)
(* Every specification runs on the same variables; the variables of the    *)
(* other parts keep their initial value.                                   *)
(***************************************************************************)
EXTENDS Integers, Sequences, FiniteSets, TLC

VARIABLES
    \* ---- request pipeline (B2, handleResponseError)
    authorization,  \* B2.authorization: the Session held by the client
    tokenSeq,       \* number of tokens the server has issued so far
    pc,             \* position of the current call
    req,            \* config of the original request of the current call
    sends,          \* how often the original request was sent in this call
    auths,          \* b2.authorize() calls made by the refresh in this call
    hdrs,           \* Authorization header of each send of the original request
    resps,          \* response to each send of the original request
    authResp,       \* response to the refresh's authorize request
    result,         \* what the caller's promise settled with
    calls,          \* calls completed so far
    baseURL,        \* client.defaults.baseURL: the apiUrl it was built from
    authHdr,        \* Authorization header of the refresh's authorize request
    refreshed       \* completed calls that were refreshed and re-sent

authVars == <<authorization, tokenSeq, pc, req, sends, auths, hdrs, resps,
              authResp, result, calls, baseURL, authHdr, refreshed>>

VARIABLES
    \* ---- File (upload, uploadSingle, uploadLarge)
    size,           \* File.size, in MiB
    recommendedPartSize,  \* authorization.recommendedPartSize, in MiB
    up              \* what one call of File.upload / uploadSingle / uploadLarge did

fileVars == <<size, recommendedPartSize, up>>

VARIABLES
    \* ---- large file: the manifest and the finish call
    partChecksums,  \* uploadLarge's partChecksums: part number -> contentSha1
    fin             \* the b2.largeFile.finish call

finVars == <<partChecksums, fin>>

VARIABLES
    \* ---- File.uploadLarge and the stream it reads
    ul,             \* the uploadLarge call: position, fileId, its promise
    stream,         \* this.data, a Readable: bytes to come, bytes buffered, flags
    handlers,       \* the invocations of the async 'readable' listener
    partCount,      \* uploadLarge's partCount
    chunks,         \* sizes of the chunks read() has returned, in order
    leaseSeq,       \* upload targets handed out by b2_get_upload_part_url
    finSnap         \* what had been read and uploaded when finish was called

largeVars == <<ul, stream, handlers, partCount, chunks, leaseSeq, finSnap>>

VARIABLES
    \* ---- LargeFileActions.listParts / listAllParts
    uploaded,       \* parts 1..uploaded are stored for the unfinished large file
    lp              \* the listParts / listAllParts call and what the caller has

listVars == <<uploaded, lp>>

VARIABLES
    \* ---- the argument tests of the actions, and new B2(credentials)
    act,            \* one call of an action: its arguments and what it did
    cred            \* one evaluation of new B2 / getAccountAuthorizationHeader

argVars == <<act, cred>>

VARIABLES
    \* ---- KeyActions.listAll
    keyCount,       \* the account holds the application keys 1..keyCount
    kl              \* the b2.key.listAll call

keyVars == <<keyCount, kl>>

vars == <<authVars, fileVars, finVars, largeVars, listVars, argVars, keyVars>>

-----------------------------------------------------------------------------
(* Bounds *)

MaxCalls == 2      \* API calls made one after the other
MaxTokens == 3     \* session tokens the server issues
MaxLease == 2      \* distinct upload authorization tokens (leases)
MaxPartNo == 11    \* highest part number of a manifest handed to finish
MaxSize == 12      \* largest stream given to uploadLarge, in MiB
MaxHandlers == 2   \* 'readable' events delivered during one uploadLarge
MaxUploaded == 3   \* parts stored for the large file whose parts are listed
MaxKeys == 3       \* application keys of the account whose keys are listed

-----------------------------------------------------------------------------
(* Header values and responses *)

NoHeader    == [t |-> "undefined", n |-> 0]
BasicHeader == [t |-> "basic", n |-> 0]
AcctToken(n)  == [t |-> "account", n |-> n]
LeaseToken(n) == [t |-> "lease", n |-> n]

\* HTTP_STATUS_CODES
OK                  == 200
BAD_REQUEST         == 400
UNAUTHORIZED        == 401
FORBIDDEN           == 403
NOT_FOUND           == 404
METHOD_NOT_ALLOWED  == 405
REQUEST_TIMEOUT     == 408
TOO_MANY_REQUESTS   == 429
INTERNAL_SERVER_ERROR == 500
SERVICE_UNAVAILABLE == 503

NoCode == "none"
NoResponse == [status |-> 0, code |-> NoCode]
Success    == [status |-> OK, code |-> NoCode]
None       == [status |-> -1, code |-> NoCode]

\* B2_ERROR_CODES that handleResponseError tells apart
BAD_AUTH_TOKEN     == "bad_auth_token"
EXPIRED_AUTH_TOKEN == "expired_auth_token"

\* The failures a request can meet: a structured B2 error {status, code},
\* or no B2 info at all (network error, timeout without a response).
Failures ==
    { [status |-> BAD_REQUEST, code |-> c] :
        c \in {"bad_request", "too_many_buckets", "duplicate_bucket_name"} }
    \cup { [status |-> UNAUTHORIZED, code |-> c] :
        c \in {BAD_AUTH_TOKEN, EXPIRED_AUTH_TOKEN, "unauthorized"} }
    \cup { [status |-> FORBIDDEN, code |-> c] :
        c \in {"cap_exceeded", "storage_cap_exceeded", "access_denied"} }
    \cup { [status |-> NOT_FOUND, code |-> "not_found"],
           [status |-> METHOD_NOT_ALLOWED, code |-> "method_not_allowed"],
           [status |-> REQUEST_TIMEOUT, code |-> "request_timeout"],
           [status |-> TOO_MANY_REQUESTS, code |-> "too_many_requests"],
           [status |-> INTERNAL_SERVER_ERROR, code |-> "internal_error"],
           [status |-> SERVICE_UNAVAILABLE, code |-> "service_unavailable"],
           NoResponse }

Responses == {Success} \cup Failures

IsTokenRejection(r) ==
    /\ r.status = UNAUTHORIZED
    /\ r.code \in {BAD_AUTH_TOKEN, EXPIRED_AUTH_TOKEN}

-----------------------------------------------------------------------------
(* File size constants.  Sizes are counted in MiB (2^20 bytes): the four     *)
(* constants are whole numbers of MiB, and 10995116277760 bytes is beyond    *)
(* the integers TLC computes with.                                           *)

SINGLE_FILE_MIN_SIZE == 0          \* 0 bytes
SINGLE_FILE_MAX_SIZE == 5120       \* 5368709120 bytes (5 GiB)
LARGE_FILE_MIN_SIZE  == 5          \* 5242880 bytes (5 MiB)
LARGE_FILE_MAX_SIZE  == 10485760   \* 10995116277760 bytes (10 TiB)

-----------------------------------------------------------------------------
(* Requests *)

AUTHORIZE_URL == "/b2_authorize_account"

\* The URLs a call can go to: an API endpoint under baseURL (the session
\* token is attached by the interceptor), an upload URL written by
\* LargeFileActions.uploadPart (lease token in the header), an upload URL
\* written by FileActions.upload, and the authorize endpoint.
ApiUrls    == {"/b2_get_upload_url", "/b2_finish_large_file"}
UploadUrls == {"uploadPartUrl", "uploadFileUrl"}
Urls       == ApiUrls \cup UploadUrls \cup {AUTHORIZE_URL}

\* The request interceptor that writes the account authorization token
\* whenever one is held, whatever the header already is.
requestInterceptor_Overwrite(config, auth) ==
    IF auth.authorizationToken # 0
    THEN [config EXCEPT !.Authorization = AcctToken(auth.authorizationToken)]
    ELSE config

\* B2 constructor, request interceptor: the account authorization token is
\* used unless the header is already set; undefined headers are removed.
requestInterceptor(config, auth) ==
    IF auth.authorizationToken # 0 /\ config.Authorization = NoHeader
    THEN [config EXCEPT !.Authorization = AcctToken(auth.authorizationToken)]
    ELSE config

\* The Authorization header each action writes into its request config.
\* LargeFileActions.uploadPart: args.authorizationToken (required);
\* FileActions.upload: args.uploadAuthToken, which no caller sets;
\* B2.authorize: credentials.authorizationHeader; every other action: none.
ActionHeader(url, lease) ==
    CASE url = "uploadPartUrl" -> LeaseToken(lease)
      [] url = "uploadFileUrl" -> NoHeader
      [] url = AUTHORIZE_URL   -> BasicHeader
      [] OTHER                 -> NoHeader

NewRequest(url, lease) ==
    [url |-> url, Authorization |-> ActionHeader(url, lease), retry |-> FALSE]

Throw(e) == [kind |-> "throw", error |-> e]
Refresh  == [kind |-> "refresh", error |-> "none"]

\* handleUnauthorized without the !originalRequest._retry test.
handleUnauthorized_NoRetryFlag(originalRequest, response) ==
    IF originalRequest.url = AUTHORIZE_URL THEN Throw("UnauthorizedError")
    ELSE IF response.code = BAD_AUTH_TOKEN \/ response.code = EXPIRED_AUTH_TOKEN
         THEN Refresh
    ELSE Throw("UnauthorizedError")

\* handleUnauthorized without the b2_authorize_account test.
handleUnauthorized_NoAuthorizeTest(originalRequest, response) ==
    IF ~originalRequest.retry
       /\ (response.code = BAD_AUTH_TOKEN \/ response.code = EXPIRED_AUTH_TOKEN)
    THEN Refresh
    ELSE IF response.code = BAD_AUTH_TOKEN THEN Throw("BadAuthTokenError")
    ELSE IF response.code = EXPIRED_AUTH_TOKEN THEN Throw("ExpiredAuthTokenError")
    ELSE Throw("UnauthorizedError")

\* handleUnauthorized that refreshes on every 401, whatever its code.
handleUnauthorized_AnyCode(originalRequest, response) ==
    IF originalRequest.url = AUTHORIZE_URL THEN Throw("UnauthorizedError")
    ELSE IF ~originalRequest.retry THEN Refresh
    ELSE IF response.code = BAD_AUTH_TOKEN THEN Throw("BadAuthTokenError")
    ELSE IF response.code = EXPIRED_AUTH_TOKEN THEN Throw("ExpiredAuthTokenError")
    ELSE Throw("UnauthorizedError")

\* handleResponseError, the branch for status 401.
handleUnauthorized(originalRequest, response) ==
    IF originalRequest.url = AUTHORIZE_URL THEN Throw("UnauthorizedError")
    ELSE IF ~originalRequest.retry
            /\ (response.code = BAD_AUTH_TOKEN \/ response.code = EXPIRED_AUTH_TOKEN)
         THEN Refresh
    ELSE IF response.code = BAD_AUTH_TOKEN THEN Throw("BadAuthTokenError")
    ELSE IF response.code = EXPIRED_AUTH_TOKEN THEN Throw("ExpiredAuthTokenError")
    ELSE Throw("UnauthorizedError")

\* handleResponseError that looks at the status only, not at the code.
handleResponseError_StatusOnly(originalRequest, response) ==
    IF response.code = NoCode THEN Throw("AxiosError")
    ELSE IF response.status = BAD_REQUEST THEN Throw("BadRequestError")
    ELSE IF response.status = UNAUTHORIZED
         THEN handleUnauthorized(originalRequest, response)
    ELSE IF response.status = NOT_FOUND THEN Throw("NotFoundError")
    ELSE IF response.status = FORBIDDEN THEN Throw("ForbiddenError")
    ELSE IF response.status = METHOD_NOT_ALLOWED
         THEN Throw("MethodNotAllowedError")
    ELSE IF response.status = REQUEST_TIMEOUT THEN Throw("RequestTimeoutError")
    ELSE IF response.status = SERVICE_UNAVAILABLE
         THEN Throw("ServiceUnavailableError")
    ELSE Throw("B2RequestError")

\* handleResponseError up to its first await: the error it throws, or the
\* decision to re-authorize and re-send the original request.
handleResponseError(originalRequest, response) ==
    IF response.code = NoCode THEN Throw("AxiosError")
    ELSE IF response.status = BAD_REQUEST THEN
        IF response.code = "too_many_buckets" THEN Throw("TooManyBucketsError")
        ELSE IF response.code = "duplicate_bucket_name"
             THEN Throw("DuplicateBucketNameError")
        ELSE Throw("BadRequestError")
    ELSE IF response.status = UNAUTHORIZED
         THEN handleUnauthorized(originalRequest, response)
    ELSE IF response.status = NOT_FOUND THEN Throw("NotFoundError")
    ELSE IF response.status = FORBIDDEN THEN
        IF response.code = "cap_exceeded" THEN Throw("CapExceededError")
        ELSE IF response.code = "storage_cap_exceeded"
             THEN Throw("StorageCapExceededError")
        ELSE Throw("ForbiddenError")
    ELSE IF response.status = METHOD_NOT_ALLOWED
         THEN Throw("MethodNotAllowedError")
    ELSE IF response.status = REQUEST_TIMEOUT THEN Throw("RequestTimeoutError")
    ELSE IF response.status = SERVICE_UNAVAILABLE
         THEN Throw("ServiceUnavailableError")
    ELSE Throw("B2RequestError")

\* handleResponseError after b2.authorize() that leaves the header alone.
RetryRequest_StaleHeader(originalRequest, authData) ==
    [originalRequest EXCEPT !.retry = TRUE]

\* handleResponseError after b2.authorize() returned: the request it
\* re-sends (originalRequest._retry was set before the await).
RetryRequest(originalRequest, authData) ==
    [originalRequest EXCEPT !.retry = TRUE,
                            !.Authorization = AcctToken(authData.authorizationToken)]

\* The data of the n-th successful b2_authorize_account response.
AuthData(n) == [authorizationToken |-> n, apiUrl |-> n, downloadUrl |-> n]

\* B2Authorization.update that takes over the token only.
update_TokenOnly(auth, data) ==
    [auth EXCEPT !.authorizationToken = data.authorizationToken]

\* B2Authorization.update: Object.assign(this, authorization).
update(auth, data) ==
    [auth EXCEPT !.authorizationToken = data.authorizationToken,
                 !.apiUrl = data.apiUrl,
                 !.downloadUrl = data.downloadUrl]

Unauthorized == [authorizationToken |-> 0, apiUrl |-> 0, downloadUrl |-> 0]

\* A value handed in through options.authorization, as opposed to one the
\* server issued (1, 2, ...) and to an absent one (0).
Given == -1

\* What a caller can pass as options.authorization: any of the fields, each
\* present or absent; Unauthorized stands for no options.authorization.
AuthorizationOptions ==
    [authorizationToken : {0, Given}, apiUrl : {0, Given}, downloadUrl : {0, Given}]

\* new B2Authorization(init): Object.assign(this, init).
B2Authorization(init) ==
    [Unauthorized EXCEPT !.authorizationToken = init.authorizationToken,
                         !.apiUrl = init.apiUrl,
                         !.downloadUrl = init.downloadUrl]

-----------------------------------------------------------------------------
(* The request pipeline *)

InitAuth ==
    /\ authorization = Unauthorized
    /\ tokenSeq = 0
    /\ pc = "idle"
    /\ req = NewRequest(AUTHORIZE_URL, 0)
    /\ sends = 0
    /\ auths = 0
    /\ hdrs = <<>>
    /\ resps = <<>>
    /\ authResp = None
    /\ result = "none"
    /\ calls = 0
    /\ baseURL = 0
    /\ authHdr = NoHeader
    /\ refreshed = 0

\* new B2(credentials, {authorization: init}): the Session is built from
\* options.authorization; the client's baseURL is not.
InitSession ==
    /\ \E init \in AuthorizationOptions : authorization = B2Authorization(init)
    /\ tokenSeq = 0
    /\ pc = "idle"
    /\ req = NewRequest(AUTHORIZE_URL, 0)
    /\ sends = 0
    /\ auths = 0
    /\ hdrs = <<>>
    /\ resps = <<>>
    /\ authResp = None
    /\ result = "none"
    /\ calls = 0
    /\ baseURL = 0
    /\ authHdr = NoHeader
    /\ refreshed = 0

\* Call with the retry mark kept from the request before, as if it were
\* kept on the client and not on the request config.
Call_SharedRetry(url, lease) ==
    /\ pc = "idle"
    /\ calls < MaxCalls
    /\ req' = requestInterceptor([NewRequest(url, lease) EXCEPT !.retry = req.retry],
                                 authorization)
    /\ sends' = 1
    /\ auths' = 0
    /\ hdrs' = <<req'.Authorization>>
    /\ resps' = <<>>
    /\ authResp' = None
    /\ result' = "pending"
    /\ pc' = "sent"
    /\ authHdr' = NoHeader
    /\ UNCHANGED <<authorization, tokenSeq, calls, baseURL, refreshed>>

\* An action method is called: its request passes the request interceptor
\* and is sent.  B2.authorize is the call with url AUTHORIZE_URL.
Call(url, lease) ==
    /\ pc = "idle"
    /\ calls < MaxCalls
    /\ req' = requestInterceptor(NewRequest(url, lease), authorization)
    /\ sends' = 1
    /\ auths' = 0
    /\ hdrs' = <<req'.Authorization>>
    /\ resps' = <<>>
    /\ authResp' = None
    /\ result' = "pending"
    /\ pc' = "sent"
    /\ authHdr' = NoHeader
    /\ UNCHANGED <<authorization, tokenSeq, calls, baseURL, refreshed>>

\* B2.authorize after its request succeeded: the Session is updated and
\* the base URL rebuilt from it.
AuthorizeOk ==
    /\ tokenSeq' = tokenSeq + 1
    /\ authorization' = update(authorization, AuthData(tokenSeq'))
    /\ baseURL' = authorization'.apiUrl

\* Respond that drops the Session when an authorize request fails.
Respond_ClearOnFailure(r) ==
    /\ pc = "sent"
    /\ resps' = Append(resps, r)
    /\ IF r = Success
       THEN /\ IF req.url = AUTHORIZE_URL
               THEN tokenSeq < MaxTokens /\ AuthorizeOk
               ELSE UNCHANGED <<authorization, tokenSeq, baseURL>>
            /\ result' = "ok"
            /\ pc' = "done"
            /\ UNCHANGED <<req, auths, authHdr>>
       ELSE LET o == handleResponseError(req, r) IN
            /\ IF o.kind = "refresh"
               THEN /\ req' = [req EXCEPT !.retry = TRUE]
                    /\ auths' = auths + 1
                    /\ authHdr' = requestInterceptor(NewRequest(AUTHORIZE_URL, 0),
                                                      authorization).Authorization
                    /\ pc' = "authorizing"
                    /\ UNCHANGED result
               ELSE /\ result' = o.error
                    /\ pc' = "done"
                    /\ UNCHANGED <<req, auths, authHdr>>
            /\ IF req.url = AUTHORIZE_URL
               THEN authorization' = Unauthorized /\ baseURL' = 0
               ELSE UNCHANGED <<authorization, baseURL>>
            /\ UNCHANGED tokenSeq
    /\ UNCHANGED <<sends, hdrs, authResp, calls, refreshed>>

\* The response to the original request arrives.  A success resolves the
\* call; a failure runs handleResponseError, which throws or starts the
\* refresh by calling b2.authorize().
Respond(r) ==
    /\ pc = "sent"
    /\ resps' = Append(resps, r)
    /\ IF r = Success
       THEN /\ IF req.url = AUTHORIZE_URL
               THEN tokenSeq < MaxTokens /\ AuthorizeOk
               ELSE UNCHANGED <<authorization, tokenSeq, baseURL>>
            /\ result' = "ok"
            /\ pc' = "done"
            /\ UNCHANGED <<req, auths, authHdr>>
       ELSE LET o == handleResponseError(req, r) IN
            /\ IF o.kind = "refresh"
               THEN /\ req' = [req EXCEPT !.retry = TRUE]
                    /\ auths' = auths + 1
                    /\ authHdr' = requestInterceptor(NewRequest(AUTHORIZE_URL, 0),
                                                      authorization).Authorization
                    /\ pc' = "authorizing"
                    /\ UNCHANGED result
               ELSE /\ result' = o.error
                    /\ pc' = "done"
                    /\ UNCHANGED <<req, auths, authHdr>>
            /\ UNCHANGED <<authorization, tokenSeq, baseURL>>
    /\ UNCHANGED <<sends, hdrs, authResp, calls, refreshed>>

\* The response to the refresh's authorize request arrives.  On success
\* handleResponseError resumes: it writes the new token into the original
\* request and re-sends it through the client.  On failure the authorize
\* request's own error passes handleResponseError and is thrown to the caller.
AuthorizeRespond(r) ==
    /\ pc = "authorizing"
    /\ authResp' = r
    /\ IF r = Success
       THEN /\ tokenSeq < MaxTokens
            /\ AuthorizeOk
            /\ req' = requestInterceptor(
                          RetryRequest(req, AuthData(tokenSeq')), authorization')
            /\ sends' = sends + 1
            /\ hdrs' = Append(hdrs, req'.Authorization)
            /\ pc' = "sent"
            /\ UNCHANGED <<auths, result>>
       ELSE LET o == handleResponseError(NewRequest(AUTHORIZE_URL, 0), r) IN
            /\ IF o.kind = "refresh"
               THEN /\ auths' = auths + 1
                    /\ pc' = "authorizing"
                    /\ UNCHANGED result
               ELSE /\ result' = o.error
                    /\ pc' = "done"
                    /\ UNCHANGED auths
            /\ UNCHANGED <<authorization, tokenSeq, baseURL, req, sends, hdrs>>
    /\ UNCHANGED <<resps, calls, authHdr, refreshed>>

\* The caller has its result and goes on to its next call.
Return ==
    /\ pc = "done"
    /\ pc' = "idle"
    /\ calls' = calls + 1
    /\ refreshed' = IF sends = 2 THEN refreshed + 1 ELSE refreshed
    /\ UNCHANGED <<authorization, tokenSeq, req, sends, auths, hdrs, resps,
                   authResp, result, baseURL, authHdr>>

NextAuth ==
    \/ \E url \in Urls, lease \in 1..MaxLease : Call(url, lease)
    \/ \E r \in Responses : Respond(r)
    \/ \E r \in Responses : AuthorizeRespond(r)
    \/ Return

-----------------------------------------------------------------------------
(* File.upload: the choice of the upload method *)

NotCalled == "not called"
Started   == "started"
InvalidFileSizeError == "InvalidFileSizeError"

\* File.uploadSingle up to its first request (the client is bound and
\* authorized, the file not yet uploaded): the size test, then
\* FileActions.upload, which issues a request.
uploadSingle(n) ==
    IF n < SINGLE_FILE_MIN_SIZE \/ n > SINGLE_FILE_MAX_SIZE
    THEN InvalidFileSizeError
    ELSE Started

\* File.uploadLarge up to its first request (same assumptions, the data a
\* readable stream): the size test, then LargeFileActions.start, which
\* issues b2_start_large_file.
uploadLarge(n) ==
    IF n < LARGE_FILE_MIN_SIZE \/ n > LARGE_FILE_MAX_SIZE
    THEN InvalidFileSizeError
    ELSE Started

\* File.upload: uploadLarge is called and its promise dropped, then
\* uploadSingle is called and returned, else InvalidFileSizeError is thrown.
upload(n, R) ==
    LET callsLarge  == (n > R \/ n > SINGLE_FILE_MAX_SIZE)
                       /\ n <= LARGE_FILE_MAX_SIZE
        callsSingle == n > SINGLE_FILE_MIN_SIZE /\ n <= SINGLE_FILE_MAX_SIZE
        single == IF callsSingle THEN uploadSingle(n) ELSE NotCalled
    IN [op |-> "upload",
        large  |-> IF callsLarge THEN uploadLarge(n) ELSE NotCalled,
        single |-> single,
        outcome |-> IF callsSingle THEN single ELSE InvalidFileSizeError]

NoUpload == [op |-> "none", large |-> NotCalled, single |-> NotCalled,
             outcome |-> "none"]

\* The sizes tried: around every threshold of the policy.
PartSizes == {5, 100, 6000}

Sizes ==
    {0, 1, 4, 5, 6}
    \cup UNION { {R - 1, R, R + 1} : R \in PartSizes }
    \cup {SINGLE_FILE_MAX_SIZE - 1, SINGLE_FILE_MAX_SIZE, SINGLE_FILE_MAX_SIZE + 1}
    \cup {LARGE_FILE_MAX_SIZE - 1, LARGE_FILE_MAX_SIZE, LARGE_FILE_MAX_SIZE + 1}

InitFileIdle ==
    /\ size = 0
    /\ recommendedPartSize = 0
    /\ up = NoUpload

InitPolicy ==
    /\ size \in Sizes
    /\ recommendedPartSize \in PartSizes
    /\ up = NoUpload

\* file.upload(args) is called.
Upload ==
    /\ up.op = "none"
    /\ up' = upload(size, recommendedPartSize)
    /\ UNCHANGED <<size, recommendedPartSize>>

\* file.uploadSingle(args) is called directly.
UploadSingle ==
    /\ up.op = "none"
    /\ up' = [op |-> "uploadSingle", large |-> NotCalled,
              single |-> uploadSingle(size), outcome |-> uploadSingle(size)]
    /\ UNCHANGED <<size, recommendedPartSize>>

\* file.uploadLarge(args) is called directly.
UploadLarge ==
    /\ up.op = "none"
    /\ up' = [op |-> "uploadLarge", large |-> uploadLarge(size),
              single |-> NotCalled, outcome |-> uploadLarge(size)]
    /\ UNCHANGED <<size, recommendedPartSize>>

NextPolicy ==
    \/ Upload /\ UNCHANGED <<authVars, finVars, largeVars, listVars, argVars, keyVars>>
    \/ UploadSingle /\ UNCHANGED <<authVars, finVars, largeVars, listVars, argVars, keyVars>>
    \/ UploadLarge /\ UNCHANGED <<authVars, finVars, largeVars, listVars, argVars, keyVars>>

-----------------------------------------------------------------------------
(* getPartSha1Array and LargeFileActions.finish *)

\* The contentSha1 of the p-th chunk of the file.
Sha1(p) == <<"sha1", p>>

\* String(n): the decimal digits of a property key.
RECURSIVE Decimal(_)
Decimal(n) == IF n < 10 THEN <<n>> ELSE Append(Decimal(n \div 10), n % 10)

\* a < b as Array.prototype.sort() without a comparator orders strings:
\* by code unit, a proper prefix first.
RECURSIVE StringLess(_, _)
StringLess(a, b) ==
    IF a = <<>> THEN b # <<>>
    ELSE IF b = <<>> THEN FALSE
    ELSE IF Head(a) # Head(b) THEN Head(a) < Head(b)
    ELSE StringLess(Tail(a), Tail(b))

\* getPartSha1Array: Object.keys(partChecksums).sort(), then the checksum of
\* each key pushed in that order.
getPartSha1Array(checksums) ==
    LET keys == DOMAIN checksums
        rank(k) == 1 + Cardinality({j \in keys :
                                      StringLess(Decimal(j), Decimal(k))})
        sortedKeys == [i \in 1..Cardinality(keys) |->
                          CHOOSE k \in keys : rank(k) = i]
    IN [i \in 1..Cardinality(keys) |-> checksums[sortedKeys[i]]]

InvalidArgumentError == "InvalidArgumentError"

\* LargeFileActions.finish up to its request: the two argument tests.
\* An empty array is an object and passes !args.partSha1Array.
finish(hasFileId, hasPartSha1Array) ==
    IF ~hasFileId THEN InvalidArgumentError
    ELSE IF ~hasPartSha1Array THEN InvalidArgumentError
    ELSE "request"

\* b2_finish_large_file on the server, as the B2 API documents it: the array
\* must list the checksums of parts 1..n of the parts the server holds.
B2FinishAccepts(parts, array) ==
    /\ Len(array) >= 1
    /\ DOMAIN parts = 1..Len(array)
    /\ \A i \in 1..Len(array) : array[i] = parts[i]

NoFinish == [pc |-> "ready", issued |-> FALSE, array |-> <<>>,
             resp |-> None, result |-> "none"]

InitFinIdle ==
    /\ partChecksums = <<>>
    /\ fin = NoFinish

\* Any set of part numbers may have been recorded, each with the checksum
\* of the chunk uploaded under that number.
InitFinish ==
    /\ partChecksums \in { [p \in S |-> Sha1(p)] : S \in SUBSET (1..MaxPartNo) }
    /\ fin = NoFinish

\* b2.largeFile.finish({fileId, partSha1Array: getPartSha1Array(partChecksums)})
\* is called; hasFileId and hasArray say which arguments the caller passed.
Finish(hasFileId, hasArray) ==
    /\ fin.pc = "ready"
    /\ IF finish(hasFileId, hasArray) = "request"
       THEN fin' = [fin EXCEPT !.pc = "sent", !.issued = TRUE,
                               !.array = getPartSha1Array(partChecksums)]
       ELSE fin' = [fin EXCEPT !.pc = "done",
                               !.result = finish(hasFileId, hasArray)]
    /\ UNCHANGED partChecksums

\* The answer to b2_finish_large_file passes the response interceptor.
FinishRespond(r) ==
    /\ fin.pc = "sent"
    /\ r = Success => B2FinishAccepts(partChecksums, fin.array)
    /\ fin' = [fin EXCEPT !.pc = "done", !.resp = r,
                  !.result = IF r = Success THEN "ok"
                             ELSE handleResponseError(
                                      NewRequest("/b2_finish_large_file", 0), r).error]
    /\ UNCHANGED partChecksums

NextFinish ==
    \/ \E f \in BOOLEAN, a \in BOOLEAN :
           Finish(f, a) /\ UNCHANGED <<authVars, fileVars, largeVars, listVars, argVars, keyVars>>
    \/ \E r \in Responses \ {resp \in Responses : IsTokenRejection(resp)} :
           FinishRespond(r) /\ UNCHANGED <<authVars, fileVars, largeVars, listVars, argVars, keyVars>>

-----------------------------------------------------------------------------
(* File.uploadLarge *)

\* Readable.read(n) in paused mode: n bytes when that many are buffered; the
\* rest of the buffer once the source has ended; null (chunk 0) otherwise.
\* A read that finds the stream ended and drained, or drains it with fewer
\* bytes than asked for, schedules 'end' for the next tick.
read(n, st) ==
    IF st.buf >= n
    THEN [chunk |-> n, stream |-> [st EXCEPT !.buf = st.buf - n]]
    ELSE IF st.ended
    THEN [chunk |-> st.buf,
          stream |-> [st EXCEPT !.buf = 0, !.endPending = TRUE]]
    ELSE [chunk |-> 0, stream |-> st]

\* 'end' has been scheduled and not yet emitted: it is emitted on the next
\* tick, before any response or further stream event is delivered.
EndDue == stream.endPending /\ ~stream.endEmitted

Idle == [pc |-> "idle", part |-> 0, chunk |-> 0, target |-> 0]

NoSnap == [read |-> 0, inflight |-> {}, failed |-> {}]

InitLargeIdle ==
    /\ ul = [pc |-> "init", fileId |-> FALSE, promise |-> "none"]
    /\ stream = [srcLeft |-> 0, buf |-> 0, ended |-> FALSE,
                 endPending |-> FALSE, endEmitted |-> FALSE]
    /\ handlers = [h \in 1..MaxHandlers |-> Idle]
    /\ partCount = 0
    /\ chunks = <<>>
    /\ leaseSeq = 0
    /\ finSnap = NoSnap

LargePartSizes == {5, 7}

InitLarge ==
    /\ size \in (LARGE_FILE_MIN_SIZE - 1)..MaxSize
    /\ recommendedPartSize \in LargePartSizes
    /\ up = NoUpload
    /\ partChecksums = <<>>
    /\ fin = NoFinish
    /\ ul = [pc |-> "init", fileId |-> FALSE, promise |-> "none"]
    /\ stream = [srcLeft |-> size, buf |-> 0, ended |-> FALSE,
                 endPending |-> FALSE, endEmitted |-> FALSE]
    /\ handlers = [h \in 1..MaxHandlers |-> Idle]
    /\ partCount = 0
    /\ chunks = <<>>
    /\ leaseSeq = 0
    /\ finSnap = NoSnap

\* file.uploadLarge(args): the size test, then b2.largeFile.start is called.
UploadLargeCall ==
    /\ ul.pc = "init"
    /\ IF uploadLarge(size) = Started
       THEN ul' = [ul EXCEPT !.pc = "starting", !.promise = "pending"]
       ELSE ul' = [ul EXCEPT !.pc = "rejected", !.promise = uploadLarge(size)]
    /\ UNCHANGED <<stream, handlers, partCount, chunks, leaseSeq, finSnap,
                   partChecksums, fin>>

\* The answer to b2_start_large_file.  On success the fileId is kept, the
\* 'readable' and 'end' listeners are registered and uploadLarge returns.
StartRespond(ok) ==
    /\ ul.pc = "starting"
    /\ IF ok
       THEN ul' = [ul EXCEPT !.pc = "streaming", !.fileId = TRUE,
                             !.promise = "resolved"]
       ELSE ul' = [ul EXCEPT !.pc = "failed", !.promise = "rejected"]
    /\ UNCHANGED <<stream, handlers, partCount, chunks, leaseSeq, finSnap,
                   partChecksums, fin>>

\* The source pushes k more bytes into the stream's buffer.
Push(k) ==
    /\ ul.pc = "streaming"
    /\ ~EndDue
    /\ ~stream.ended
    /\ k <= stream.srcLeft
    /\ stream' = [stream EXCEPT !.srcLeft = stream.srcLeft - k,
                                !.buf = stream.buf + k]
    /\ UNCHANGED <<ul, handlers, partCount, chunks, leaseSeq, finSnap,
                   partChecksums, fin>>

\* The source ends (push(null)).
PushEOF ==
    /\ ul.pc = "streaming"
    /\ ~EndDue
    /\ ~stream.ended
    /\ stream.srcLeft = 0
    /\ stream' = [stream EXCEPT !.ended = TRUE]
    /\ UNCHANGED <<ul, handlers, partCount, chunks, leaseSeq, finSnap,
                   partChecksums, fin>>

\* ReadLoop with a part counter kept by each invocation of the listener
\* instead of the one counter of uploadLarge.
ReadLoop_LocalCount(h, target) ==
    LET r == read(recommendedPartSize, stream) IN
    /\ stream' = r.stream
    /\ IF r.chunk = 0
       THEN /\ handlers' = [handlers EXCEPT ![h] = [Idle EXCEPT !.pc = "returned"]]
            /\ UNCHANGED <<partCount, chunks>>
       ELSE /\ partCount' = partCount + 1
            /\ chunks' = Append(chunks, r.chunk)
            /\ handlers' = [handlers EXCEPT ![h] =
                   [pc |-> "uploading", part |-> handlers[h].part + 1,
                    chunk |-> Len(chunks'), target |-> target]]

\* The while loop of the 'readable' listener from read() to its next await:
\* a chunk is read, partCount incremented and uploadPart called with it, or
\* read() returns null and the listener returns.
ReadLoop(h, target) ==
    LET r == read(recommendedPartSize, stream) IN
    /\ stream' = r.stream
    /\ IF r.chunk = 0
       THEN /\ handlers' = [handlers EXCEPT ![h] = [Idle EXCEPT !.pc = "returned"]]
            /\ UNCHANGED <<partCount, chunks>>
       ELSE /\ partCount' = partCount + 1
            /\ chunks' = Append(chunks, r.chunk)
            /\ handlers' = [handlers EXCEPT ![h] =
                   [pc |-> "uploading", part |-> partCount',
                    chunk |-> Len(chunks'), target |-> target]]

\* 'readable' is emitted: the h-th invocation of the listener starts and
\* calls getUploadPartUrl.
Readable(h) ==
    /\ ul.pc = "streaming"
    /\ ~EndDue
    /\ ~stream.endEmitted
    /\ stream.buf > 0 \/ stream.ended
    /\ handlers[h].pc = "idle"
    /\ \A g \in 1..(h - 1) : handlers[g].pc # "idle"
    /\ handlers' = [handlers EXCEPT ![h].pc = "lease"]
    /\ UNCHANGED <<ul, stream, partCount, chunks, leaseSeq, finSnap,
                   partChecksums, fin>>

\* The answer to b2_get_upload_part_url.  On success the listener enters its
\* read loop with the leased target; on failure it throws.
LeaseRespond(h, ok) ==
    /\ handlers[h].pc = "lease"
    /\ ~EndDue
    /\ IF ok
       THEN /\ leaseSeq' = leaseSeq + 1
            /\ ReadLoop(h, leaseSeq')
       ELSE /\ handlers' = [handlers EXCEPT ![h].pc = "failed"]
            /\ UNCHANGED <<stream, partCount, chunks, leaseSeq>>
    /\ UNCHANGED <<ul, finSnap, partChecksums, fin>>

\* partChecksums[partNumber] = contentSha1, with the part number and the
\* checksum of the received bytes that the b2_upload_part response carries.
RecordPart(checksums, partNumber, contentSha1) ==
    [p \in DOMAIN checksums \cup {partNumber} |->
        IF p = partNumber THEN contentSha1 ELSE checksums[p]]

\* The answer to b2_upload_part.  On success the checksum is recorded and
\* the loop goes on; on failure the listener throws.
UploadPartRespond(h, ok) ==
    /\ handlers[h].pc = "uploading"
    /\ ~EndDue
    /\ IF ok
       THEN /\ partChecksums' = RecordPart(partChecksums, handlers[h].part,
                                           Sha1(handlers[h].chunk))
            /\ ReadLoop(h, handlers[h].target)
       ELSE /\ handlers' = [handlers EXCEPT ![h].pc = "failed"]
            /\ UNCHANGED <<stream, partCount, chunks, partChecksums>>
    /\ UNCHANGED <<ul, leaseSeq, finSnap, fin>>

\* 'end' is emitted: the listener calls
\* finish({fileId, partSha1Array: getPartSha1Array(partChecksums)}).
End ==
    /\ ul.pc = "streaming"
    /\ EndDue
    /\ stream' = [stream EXCEPT !.endEmitted = TRUE]
    /\ finSnap' = [read |-> Len(chunks),
                   inflight |-> {h \in 1..MaxHandlers :
                                    handlers[h].pc = "uploading"},
                   failed |-> {h \in 1..MaxHandlers :
                                    handlers[h].pc = "failed"}]
    /\ Finish(ul.fileId, TRUE)
    /\ UNCHANGED <<ul, handlers, partCount, chunks, leaseSeq>>

NextLarge ==
    \/ UploadLargeCall /\ UNCHANGED <<authVars, fileVars, listVars, argVars, keyVars>>
    \/ \E ok \in BOOLEAN : StartRespond(ok) /\ UNCHANGED <<authVars, fileVars, listVars, argVars, keyVars>>
    \/ \E k \in 1..MaxSize : Push(k) /\ UNCHANGED <<authVars, fileVars, listVars, argVars, keyVars>>
    \/ PushEOF /\ UNCHANGED <<authVars, fileVars, listVars, argVars, keyVars>>
    \/ \E h \in 1..MaxHandlers : Readable(h) /\ UNCHANGED <<authVars, fileVars, listVars, argVars, keyVars>>
    \/ \E h \in 1..MaxHandlers, ok \in BOOLEAN :
           LeaseRespond(h, ok) /\ UNCHANGED <<authVars, fileVars, listVars, argVars, keyVars>>
    \/ \E h \in 1..MaxHandlers, ok \in BOOLEAN :
           UploadPartRespond(h, ok) /\ UNCHANGED <<authVars, fileVars, listVars, argVars, keyVars>>
    \/ End /\ UNCHANGED <<authVars, fileVars, listVars, argVars, keyVars>>
    \/ \E r \in {Success, NoResponse,
                 [status |-> BAD_REQUEST, code |-> "bad_request"]} :
           /\ ~EndDue
           /\ FinishRespond(r)
           /\ UNCHANGED <<authVars, fileVars, largeVars, listVars, argVars, keyVars>>

-----------------------------------------------------------------------------
(* LargeFileActions.listParts and listAllParts *)

\* The values of args.startPartNumber and of response.data.nextPartNumber.
Undefined == [t |-> "undefined", n |-> 0]
Null      == [t |-> "null", n |-> 0]
Num(n)    == [t |-> "number", n |-> n]

\* maxPartCount of b2_list_parts when args.maxPartCount is not given.
DEFAULT_MAX_PART_COUNT == 1000

\* What a caller passes: no args at all, or args with or without fileId, a
\* startPartNumber (undefined, null or a number) and a maxPartCount (0: not
\* given).
ListArgs ==
    [given : BOOLEAN, fileId : BOOLEAN,
     startPartNumber : {Undefined, Null} \cup {Num(n) : n \in 0..MaxUploaded},
     maxPartCount : {0, 1, 2}]

\* LargeFileActions.listParts up to its request: the argument test, then the
\* body of b2_list_parts (args.startPartNumber || 0, args.maxPartCount || 1000).
listParts(args) ==
    IF ~args.given \/ ~args.fileId
    THEN [kind |-> "throw", error |-> InvalidArgumentError,
          startPartNumber |-> 0, maxPartCount |-> 0]
    ELSE [kind |-> "request", error |-> "none",
          startPartNumber |-> IF args.startPartNumber.t = "number"
                              THEN args.startPartNumber.n ELSE 0,
          maxPartCount |-> IF args.maxPartCount = 0
                           THEN DEFAULT_MAX_PART_COUNT ELSE args.maxPartCount]

\* b2_list_parts on the server, as the B2 API documents it: the stored parts
\* from startPartNumber on, at most maxPartCount of them, in part order, and
\* the number of the next part, or null when there is none.
B2ListParts(k, startPartNumber, maxPartCount) ==
    LET from == IF startPartNumber < 1 THEN 1 ELSE startPartNumber
        to   == IF from + maxPartCount - 1 < k THEN from + maxPartCount - 1 ELSE k
    IN [parts |-> [i \in 1..(to - from + 1) |->
                      [partNumber |-> from + i - 1,
                       contentSha1 |-> Sha1(from + i - 1)]],
        nextPartNumber |-> IF to < k THEN Num(to + 1) ELSE Null]

\* LargeFileActions.listAllParts, the whole call.  Reading args.startPartNumber
\* throws when there are no args.  A startPartNumber of null skips the loop.
\* Otherwise listParts is called and not awaited (its request is issued when
\* the arguments pass its test); response is a promise, response.data is
\* undefined and reading response.data.parts throws a TypeError.
listAllParts(args) ==
    IF ~args.given
    THEN [requests |-> 0, result |-> "TypeError", parts |-> <<>>]
    ELSE IF args.startPartNumber = Null
    THEN [requests |-> 0, result |-> "ok", parts |-> <<>>]
    ELSE [requests |-> IF listParts(args).kind = "request" THEN 1 ELSE 0,
          result |-> "TypeError", parts |-> <<>>]

NoList == [op |-> "none", pc |-> "ready", args |-> [given |-> FALSE,
           fileId |-> FALSE, startPartNumber |-> Undefined, maxPartCount |-> 0],
           requests |-> 0, body |-> 0, parts |-> <<>>, next |-> Undefined,
           result |-> "none"]

InitListIdle ==
    /\ uploaded = 0
    /\ lp = NoList

\* Parts 1..uploaded have been uploaded for a large file that is not finished.
InitList ==
    /\ uploaded \in 0..MaxUploaded
    /\ lp = NoList

\* b2.largeFile.listAllParts(args) is called.
ListAllParts(args) ==
    /\ lp.op = "none"
    /\ lp' = [lp EXCEPT !.op = "listAllParts", !.pc = "done", !.args = args,
                        !.requests = listAllParts(args).requests,
                        !.parts = listAllParts(args).parts,
                        !.result = listAllParts(args).result]
    /\ UNCHANGED uploaded

\* b2.largeFile.listParts(args) is called: by a caller paging through the
\* parts, first with its own startPartNumber, then with the nextPartNumber
\* of the page before.
ListParts(args) ==
    /\ lp.pc = "ready"
    /\ lp.op \in {"none", "listParts"}
    /\ lp.op = "listParts" =>
           /\ lp.next # Null
           /\ args = [lp.args EXCEPT !.startPartNumber = lp.next]
    /\ IF listParts(args).kind = "request"
       THEN lp' = [lp EXCEPT !.op = "listParts", !.pc = "sent",
                             !.args = IF lp.op = "none" THEN args ELSE lp.args,
                             !.requests = lp.requests + 1,
                             !.body = listParts(args).startPartNumber,
                             !.result = "pending"]
       ELSE lp' = [lp EXCEPT !.op = "listParts", !.pc = "done", !.args = args,
                             !.result = listParts(args).error]
    /\ UNCHANGED uploaded

\* The answer to b2_list_parts: the caller keeps the page's parts and its
\* nextPartNumber; a failure passes handleResponseError.
ListPartsRespond(r) ==
    /\ lp.pc = "sent"
    /\ IF r = Success
       THEN LET page == B2ListParts(uploaded, lp.body,
                                    listParts(lp.args).maxPartCount) IN
            lp' = [lp EXCEPT !.parts = lp.parts \o page.parts,
                             !.next = page.nextPartNumber,
                             !.pc = IF page.nextPartNumber = Null
                                    THEN "done" ELSE "ready",
                             !.result = "ok"]
       ELSE lp' = [lp EXCEPT !.pc = "done",
                             !.result = handleResponseError(
                                 NewRequest("/b2_list_parts", 0), r).error]
    /\ UNCHANGED uploaded

NextList ==
    \/ \E args \in ListArgs :
           ListAllParts(args) /\ UNCHANGED <<authVars, fileVars, finVars, largeVars, argVars, keyVars>>
    \/ \E args \in ListArgs :
           ListParts(args) /\ UNCHANGED <<authVars, fileVars, finVars, largeVars, argVars, keyVars>>
    \/ \E r \in Responses \ {resp \in Responses : IsTokenRejection(resp)} :
           ListPartsRespond(r)
           /\ UNCHANGED <<authVars, fileVars, finVars, largeVars, argVars, keyVars>>

-----------------------------------------------------------------------------
(* The argument tests of the actions, and the credentials of a client *)

\* The actions and, for each, the parameters its argument tests read.
Actions ==
    {"largeFile.start", "largeFile.getUploadPartUrl", "largeFile.uploadPart",
     "largeFile.finish", "largeFile.cancel", "largeFile.listParts",
     "key.create", "bucket.delete"}

Parameters(action) ==
    CASE action = "largeFile.start"      -> {"bucketId", "fileName"}
      [] action = "largeFile.uploadPart" ->
             {"uploadUrl", "authorizationToken", "partNumber", "data"}
      [] action = "largeFile.finish"     -> {"fileId", "partSha1Array"}
      [] action = "key.create"           -> {"keyName", "capabilities"}
      [] action = "bucket.delete"        -> {"bucketId"}
      [] OTHER                           -> {"fileId"}

\* What a caller passes to an action: no args at all, or an object in which
\* the parameters of `has` are truthy and its other parameters are missing
\* or falsy.
ActionArgs(action) ==
    {[given |-> FALSE, has |-> {}]}
        \cup [given : {TRUE}, has : SUBSET Parameters(action)]

Request(url) == [kind |-> "request", error |-> "none", url |-> url]
Reject(e)    == [kind |-> "throw", error |-> e, url |-> "none"]

\* Each action up to its request: its argument tests, in the order of the
\* code, then the URL it posts to.
start(args) ==
    IF ~args.given \/ "bucketId" \notin args.has
    THEN Reject(InvalidArgumentError)
    ELSE IF "fileName" \notin args.has THEN Reject(InvalidArgumentError)
    ELSE Request("/b2_start_large_file")

getUploadPartUrl(args) ==
    IF ~args.given \/ "fileId" \notin args.has
    THEN Reject(InvalidArgumentError)
    ELSE Request("/b2_get_upload_part_url")

\* uploadPart without the test of args.authorizationToken.
uploadPart_NoTokenTest(args) ==
    IF ~args.given \/ "uploadUrl" \notin args.has
    THEN Reject(InvalidArgumentError)
    ELSE IF "partNumber" \notin args.has THEN Reject(InvalidArgumentError)
    ELSE IF "data" \notin args.has THEN Reject(InvalidArgumentError)
    ELSE Request("uploadPartUrl")

uploadPart(args) ==
    IF ~args.given \/ "uploadUrl" \notin args.has
    THEN Reject(InvalidArgumentError)
    ELSE IF "authorizationToken" \notin args.has
    THEN Reject(InvalidArgumentError)
    ELSE IF "partNumber" \notin args.has THEN Reject(InvalidArgumentError)
    ELSE IF "data" \notin args.has THEN Reject(InvalidArgumentError)
    ELSE Request("uploadPartUrl")

cancel(args) ==
    IF ~args.given \/ "fileId" \notin args.has
    THEN Reject(InvalidArgumentError)
    ELSE Request("/b2_cancel_large_file")

\* KeyActions.create
create(args) ==
    IF ~args.given \/ "keyName" \notin args.has
    THEN Reject(InvalidArgumentError)
    ELSE IF "capabilities" \notin args.has THEN Reject(InvalidArgumentError)
    ELSE Request("/b2_create_key")

\* BucketActions.delete
delete(args) ==
    IF ~args.given \/ "bucketId" \notin args.has
    THEN Reject(InvalidArgumentError)
    ELSE Request("/b2_delete_bucket")

\* b2.<action>(args): the call of the action by its name.
perform(action, args) ==
    CASE action = "largeFile.start"            -> start(args)
      [] action = "largeFile.getUploadPartUrl" -> getUploadPartUrl(args)
      [] action = "largeFile.uploadPart"       -> uploadPart(args)
      [] action = "largeFile.cancel"           -> cancel(args)
      [] action = "key.create"                 -> create(args)
      [] action = "bucket.delete"              -> delete(args)
      [] action = "largeFile.finish" ->
             IF finish(args.given /\ "fileId" \in args.has,
                       "partSha1Array" \in args.has) = "request"
             THEN Request("/b2_finish_large_file")
             ELSE Reject(finish(args.given /\ "fileId" \in args.has,
                                "partSha1Array" \in args.has))
      [] action = "largeFile.listParts" ->
             LET largs == [given |-> args.given,
                           fileId |-> "fileId" \in args.has,
                           startPartNumber |-> Undefined, maxPartCount |-> 0]
             IN IF listParts(largs).kind = "request"
                THEN Request("/b2_list_parts")
                ELSE Reject(listParts(largs).error)

NoAction == [action |-> "none", pc |-> "ready",
             args |-> [given |-> FALSE, has |-> {}],
             requests |-> 0, result |-> "none"]

\* B2Credentials: the constructor's test of its two arguments.
InvalidCredentialsError == "InvalidCredentialsError"

B2Credentials(applicationKeyId, applicationKey) ==
    IF applicationKeyId \/ applicationKey THEN InvalidCredentialsError
    ELSE "ok"

\* new B2(credentials): the test of the credentials argument, then
\* new B2Credentials(credentials.applicationKeyId, credentials.applicationKey).
B2(credentials) ==
    IF ~credentials.given THEN InvalidArgumentError
    ELSE B2Credentials(credentials.applicationKeyId, credentials.applicationKey)

\* utils.getAccountAuthorizationHeader(credentials)
getAccountAuthorizationHeader(credentials) ==
    IF ~credentials.given \/ ~credentials.applicationKeyId
           \/ ~credentials.applicationKey
    THEN InvalidCredentialsError
    ELSE "Basic"

\* The credentials a caller passes: none, or an object whose applicationKeyId
\* and applicationKey are each a non-empty string (TRUE) or missing (FALSE).
Credentials ==
    {[given |-> FALSE, applicationKeyId |-> FALSE, applicationKey |-> FALSE]}
        \cup [given : {TRUE}, applicationKeyId : BOOLEAN,
              applicationKey : BOOLEAN]

NoCredentials == [op |-> "none",
                  credentials |-> [given |-> FALSE, applicationKeyId |-> FALSE,
                                   applicationKey |-> FALSE],
                  result |-> "none"]

InitArgsIdle ==
    /\ act = NoAction
    /\ cred = NoCredentials

\* b2.<action>(args) is called on a client.
Invoke(action, args) ==
    /\ act.pc = "ready"
    /\ act.action = "none"
    /\ IF perform(action, args).kind = "request"
       THEN act' = [act EXCEPT !.action = action, !.args = args,
                               !.pc = "sent", !.requests = 1,
                               !.result = "pending"]
       ELSE act' = [act EXCEPT !.action = action, !.args = args,
                               !.pc = "done",
                               !.result = perform(action, args).error]
    /\ UNCHANGED cred

\* The answer to the action's request; a failure passes handleResponseError.
InvokeRespond(r) ==
    /\ act.pc = "sent"
    /\ act' = [act EXCEPT !.pc = "done",
                  !.result = IF r = Success THEN "ok"
                             ELSE handleResponseError(
                                 NewRequest(perform(act.action, act.args).url,
                                            0), r).error]
    /\ UNCHANGED cred

\* new B2(credentials) is evaluated.
Construct(credentials) ==
    /\ cred.op = "none"
    /\ cred' = [op |-> "new B2", credentials |-> credentials,
                result |-> B2(credentials)]
    /\ UNCHANGED act

\* getAccountAuthorizationHeader(credentials) is evaluated.
GetAccountAuthorizationHeader(credentials) ==
    /\ cred.op = "none"
    /\ cred' = [op |-> "getAccountAuthorizationHeader",
                credentials |-> credentials,
                result |-> getAccountAuthorizationHeader(credentials)]
    /\ UNCHANGED act

NextArgs ==
    \/ \E action \in Actions : \E args \in ActionArgs(action) :
           Invoke(action, args)
           /\ UNCHANGED <<authVars, fileVars, finVars, largeVars, listVars, keyVars>>
    \/ \E r \in Responses \ {resp \in Responses : IsTokenRejection(resp)} :
           InvokeRespond(r)
           /\ UNCHANGED <<authVars, fileVars, finVars, largeVars, listVars, keyVars>>
    \/ \E credentials \in Credentials :
           Construct(credentials)
           /\ UNCHANGED <<authVars, fileVars, finVars, largeVars, listVars, keyVars>>
    \/ \E credentials \in Credentials :
           GetAccountAuthorizationHeader(credentials)
           /\ UNCHANGED <<authVars, fileVars, finVars, largeVars, listVars, keyVars>>

-----------------------------------------------------------------------------
(* KeyActions.list and listAll *)

\* The values of args.startApplicationKeyId and of
\* response.data.nextApplicationKeyId besides undefined and null: the empty
\* string, and the id of the n-th application key of the account.
Empty    == [t |-> "string", n |-> 0]
KeyId(n) == [t |-> "string", n |-> n]

\* maxKeyCount of b2_list_keys when args.maxKeyCount is not given.
DEFAULT_MAX_KEY_COUNT == 1000

\* What a caller passes to listAll: nothing (args = {}), or args with a
\* startApplicationKeyId (undefined, null or a key id) and a maxKeyCount
\* (0: not given).
KeyListArgs ==
    [startApplicationKeyId : {Undefined, Null} \cup {KeyId(n) : n \in 1..MaxKeys},
     maxKeyCount : {0, 1, 2}]

\* KeyActions.list: the body of its b2_list_keys request
\* (args.maxKeyCount || 1000, args.startApplicationKeyId || null).
list(args) ==
    [maxKeyCount |-> IF args.maxKeyCount = 0
                     THEN DEFAULT_MAX_KEY_COUNT ELSE args.maxKeyCount,
     startApplicationKeyId |->
         IF args.startApplicationKeyId.t = "string"
                /\ args.startApplicationKeyId # Empty
         THEN args.startApplicationKeyId ELSE Null]

\* b2_list_keys on the server, as the B2 API documents it: the keys of the
\* account from startApplicationKeyId on (null: from the first), at most
\* maxKeyCount of them, in key order, and the id of the next key, or null
\* when there is none.
B2ListKeys(k, body) ==
    LET from == IF body.startApplicationKeyId = Null
                THEN 1 ELSE body.startApplicationKeyId.n
        to   == IF from + body.maxKeyCount - 1 < k
                THEN from + body.maxKeyCount - 1 ELSE k
    IN [keys |-> [i \in 1..(to - from + 1) |-> KeyId(from + i - 1)],
        nextApplicationKeyId |-> IF to < k THEN KeyId(to + 1) ELSE Null]

\* listAll's first cursor: args.startApplicationKeyId || ''.
firstStart(args) ==
    IF args.startApplicationKeyId.t = "string"
           /\ args.startApplicationKeyId # Empty
    THEN args.startApplicationKeyId ELSE Empty

\* One pass of listAll's loop body after the page has arrived, keeping only
\* the keys of that page.
listAllPage_LastPageOnly(keys, data) ==
    [keys |-> data.keys,
     startApplicationKeyId |-> data.nextApplicationKeyId]

\* One pass of listAll's loop body after the page has arrived:
\* keys.push(...response.data.keys), then the cursor of the next pass.
listAllPage(keys, data) ==
    [keys |-> keys \o data.keys,
     startApplicationKeyId |-> data.nextApplicationKeyId]

NoKeyList == [op |-> "none", pc |-> "ready",
              args |-> [startApplicationKeyId |-> Undefined, maxKeyCount |-> 0],
              startApplicationKeyId |-> Undefined, keys |-> <<>>,
              requests |-> 0, body |-> list([startApplicationKeyId |-> Undefined,
                                             maxKeyCount |-> 0]),
              cursors |-> <<>>, nexts |-> <<>>, pages |-> <<>>,
              result |-> "none"]

InitKeysIdle ==
    /\ keyCount = 0
    /\ kl = NoKeyList

\* The account holds the application keys 1..keyCount.
InitKeys ==
    /\ keyCount \in 0..MaxKeys
    /\ kl = NoKeyList

\* b2.key.listAll(args) is called: the first cursor is never null, so the
\* loop is entered and the first b2_list_keys request is issued.
ListAll(args) ==
    /\ kl.op = "none"
    /\ LET body == list([args EXCEPT
                            !.startApplicationKeyId = firstStart(args)]) IN
       kl' = [kl EXCEPT !.op = "listAll", !.pc = "sent", !.args = args,
                        !.startApplicationKeyId = firstStart(args),
                        !.requests = 1, !.body = body,
                        !.cursors = <<body.startApplicationKeyId>>,
                        !.result = "pending"]
    /\ UNCHANGED keyCount

\* The answer to a b2_list_keys request of listAll.  A failure passes
\* handleResponseError and ends listAll.  A page is pushed to keys; when its
\* nextApplicationKeyId is null listAll returns keys, otherwise the next
\* request is issued with that cursor.
ListAllRespond(r) ==
    /\ kl.pc = "sent"
    /\ IF r # Success
       THEN kl' = [kl EXCEPT !.pc = "done",
                             !.result = handleResponseError(
                                 NewRequest("/b2_list_keys", 0), r).error]
       ELSE LET data == B2ListKeys(keyCount, kl.body)
                pass == listAllPage(kl.keys, data)
                body == list([kl.args EXCEPT !.startApplicationKeyId =
                                  pass.startApplicationKeyId])
            IN IF pass.startApplicationKeyId = Null
               THEN kl' = [kl EXCEPT !.pc = "done", !.keys = pass.keys,
                                     !.startApplicationKeyId = Null,
                                     !.nexts = Append(kl.nexts, Null),
                                     !.pages = Append(kl.pages, data.keys),
                                     !.result = "ok"]
               ELSE kl' = [kl EXCEPT !.keys = pass.keys,
                                     !.startApplicationKeyId =
                                         pass.startApplicationKeyId,
                                     !.nexts = Append(kl.nexts,
                                                 data.nextApplicationKeyId),
                                     !.pages = Append(kl.pages, data.keys),
                                     !.requests = kl.requests + 1,
                                     !.body = body,
                                     !.cursors = Append(kl.cursors,
                                                 body.startApplicationKeyId)]
    /\ UNCHANGED keyCount

NextKeys ==
    \/ \E args \in KeyListArgs :
           ListAll(args)
           /\ UNCHANGED <<authVars, fileVars, finVars, largeVars, listVars, argVars>>
    \/ \E r \in Responses \ {resp \in Responses : IsTokenRejection(resp)} :
           ListAllRespond(r)
           /\ UNCHANGED <<authVars, fileVars, finVars, largeVars, listVars, argVars>>

-----------------------------------------------------------------------------
(* Specifications *)

Init == InitAuth /\ InitFileIdle /\ InitFinIdle /\ InitLargeIdle /\ InitListIdle
        /\ InitArgsIdle /\ InitKeysIdle

Next == NextAuth /\ UNCHANGED <<fileVars, finVars, largeVars, listVars, argVars, keyVars>>

Spec == Init /\ [][Next]_vars

InitP == InitAuth /\ InitPolicy /\ InitFinIdle /\ InitLargeIdle /\ InitListIdle
         /\ InitArgsIdle /\ InitKeysIdle

SpecPolicy == InitP /\ [][NextPolicy]_vars

InitF == InitAuth /\ InitFileIdle /\ InitFinish /\ InitLargeIdle /\ InitListIdle
         /\ InitArgsIdle /\ InitKeysIdle

SpecFinish == InitF /\ [][NextFinish]_vars

InitL == InitAuth /\ InitLarge /\ InitListIdle
         /\ InitArgsIdle /\ InitKeysIdle

InitS == InitSession /\ InitFileIdle /\ InitFinIdle /\ InitLargeIdle /\ InitListIdle
         /\ InitArgsIdle /\ InitKeysIdle

InitLP == InitAuth /\ InitFileIdle /\ InitFinIdle /\ InitLargeIdle /\ InitList
          /\ InitArgsIdle /\ InitKeysIdle

SpecList == InitLP /\ [][NextList]_vars

SpecSession == InitS /\ [][Next]_vars

SpecLarge == InitL /\ [][NextLarge]_vars

InitA == InitAuth /\ InitFileIdle /\ InitFinIdle /\ InitLargeIdle /\ InitListIdle
         /\ InitArgsIdle /\ InitKeysIdle

SpecArgs == InitA /\ [][NextArgs]_vars

InitK == InitAuth /\ InitFileIdle /\ InitFinIdle /\ InitLargeIdle /\ InitListIdle
         /\ InitArgsIdle /\ InitKeys

SpecKeys == InitK /\ [][NextKeys]_vars

-----
(* Claims about the request pipeline *)

FirstRejected == Len(resps) >= 1 /\ IsTokenRejection(resps[1])

\* C1: a call other than authorize whose first attempt is rejected with 401
\* bad_auth_token / expired_auth_token makes exactly one authorize call; once
\* that authorize succeeded the original request has been re-sent exactly
\* once, carrying the token just issued, and a successful retry resolves the
\* call with no error.
C1_RefreshOnceThenRetry ==
    (req.url # AUTHORIZE_URL /\ FirstRejected) =>
        /\ auths = 1
        /\ (authResp = None => sends = 1 /\ pc = "authorizing")
        /\ (authResp = Success =>
               /\ sends = 2
               /\ Len(hdrs) = 2
               /\ hdrs[2] = AcctToken(tokenSeq)
               /\ hdrs[2] = AcctToken(authorization.authorizationToken)
               /\ Len(resps) <= 2
               /\ (Len(resps) = 2 /\ resps[2] = Success => result = "ok"))

C1_Witness ==
    /\ pc = "done"
    /\ req.url \in ApiUrls
    /\ FirstRejected
    /\ auths = 1
    /\ sends = 2
    /\ resps[2] = Success
    /\ result = "ok"

\* C2: within one call the original request is sent at most twice and
\* authorize is called at most once; a failed retry is surfaced to the
\* caller (BadAuthTokenError / ExpiredAuthTokenError for those codes) and
\* nothing more is sent.
C2_AtMostOneRetry ==
    /\ sends <= 2
    /\ auths <= 1
    /\ Len(resps) <= 2
    /\ (Len(resps) = 2 /\ resps[2] # Success =>
           /\ pc \in {"done", "idle"}
           /\ result \notin {"ok", "pending", "none"}
           /\ (resps[2].code = BAD_AUTH_TOKEN => result = "BadAuthTokenError")
           /\ (resps[2].code = EXPIRED_AUTH_TOKEN
                  => result = "ExpiredAuthTokenError"))

C2_Witness ==
    /\ pc = "done"
    /\ sends = 2
    /\ Len(resps) = 2
    /\ resps[2].code = EXPIRED_AUTH_TOKEN
    /\ result = "ExpiredAuthTokenError"

\* C3: an upload (uploadPart or single-shot) whose token is rejected with 401
\* bad_auth_token / expired_auth_token fails closed: no authorize call, no
\* second send, the header never becomes the account token, and the
\* rejection is what the caller gets.
C3_UploadFailsClosed ==
    (req.url \in UploadUrls /\ FirstRejected) =>
        /\ auths = 0
        /\ sends = 1
        /\ pc \in {"done", "idle"}
        /\ result \in {"BadAuthTokenError", "ExpiredAuthTokenError"}

\* C4: a 401 answer to the authorize request is surfaced as UnauthorizedError
\* and starts neither a refresh nor a retry; when the authorize call of a
\* refresh fails, the original request is not re-sent and no further
\* authorize call is made.
C4_AuthorizeFailureIsFinal ==
    /\ (req.url = AUTHORIZE_URL => auths = 0 /\ sends <= 1)
    /\ (req.url = AUTHORIZE_URL /\ Len(resps) = 1
            /\ resps[1].status = UNAUTHORIZED =>
           /\ pc \in {"done", "idle"}
           /\ result = "UnauthorizedError")
    /\ (authResp \notin {None, Success} =>
           /\ pc \in {"done", "idle"}
           /\ sends = 1
           /\ auths = 1
           /\ Len(resps) = 1
           /\ result \notin {"ok", "pending", "none"}
           /\ (authResp.status = UNAUTHORIZED => result = "UnauthorizedError"))

C4_Witness ==
    /\ pc = "done"
    /\ req.url \in ApiUrls
    /\ authResp.status = UNAUTHORIZED
    /\ authResp.code = BAD_AUTH_TOKEN
    /\ result = "UnauthorizedError"
    /\ sends = 1

-----------------------------------------------------------------------------
(* Claims about File.upload *)

\* The Part Size Policy of the specification.
Policy(n, R) ==
    IF n <= SINGLE_FILE_MAX_SIZE /\ n <= R THEN "single"
    ELSE IF LARGE_FILE_MIN_SIZE <= n /\ n <= LARGE_FILE_MAX_SIZE THEN "multipart"
    ELSE "reject"

\* What a finished File.upload call did, when it did exactly one thing.
Choice ==
    CASE up.single = Started /\ up.large = NotCalled /\ up.outcome = Started
             -> "single"
      [] up.large = Started /\ up.single = NotCalled /\ up.outcome = Started
             -> "multipart"
      [] up.large # Started /\ up.single # Started
         /\ up.outcome = InvalidFileSizeError
             -> "reject"
      [] OTHER -> "mixed"

\* C9: File.upload does exactly one of: start the single-shot upload, start
\* the multipart upload, reject the size; it never starts both uploads and
\* never rejects after starting one.
C9_ExactlyOneChoice ==
    up.op = "upload" =>
        /\ ~(up.large = Started /\ up.single = Started)
        /\ (up.outcome = InvalidFileSizeError =>
               up.large # Started /\ up.single # Started)
        /\ Choice \in {"single", "multipart", "reject"}

\* C10: the choice of File.upload is the Part Size Policy's for every size.
C10_ChoiceIsPolicy ==
    up.op = "upload" => Choice = Policy(size, recommendedPartSize)

-----------------------------------------------------------------------------
(* Claims about finish and the manifest *)

\* The manifest is exactly parts 1..k, k >= 1.
Contiguous(checksums) ==
    /\ DOMAIN checksums # {}
    /\ DOMAIN checksums = 1..Cardinality(DOMAIN checksums)

\* The i-th smallest part number of the manifest.
NthPart(checksums, i) ==
    CHOOSE k \in DOMAIN checksums :
        Cardinality({j \in DOMAIN checksums : j < k}) = i - 1

\* C6: finish with a manifest succeeds only if the manifest is exactly parts
\* 1..k (k >= 1), succeeds whenever it is and the server decides on it, and
\* fails with IncompleteUpload otherwise.
C6_FinishIffContiguous ==
    (fin.pc = "done" /\ fin.result # InvalidArgumentError) =>
        /\ (fin.result = "ok" => Contiguous(partChecksums))
        /\ (~Contiguous(partChecksums) => fin.result = "IncompleteUpload")
        /\ (Contiguous(partChecksums)
                /\ fin.resp \in {Success, [status |-> BAD_REQUEST,
                                            code |-> "bad_request"]}
               => fin.result = "ok")

\* C7: finish with an empty or otherwise invalid manifest issues no
\* b2_finish_large_file request.
C7_InvalidManifestNotSent ==
    ~Contiguous(partChecksums) => ~fin.issued

\* C8: the partSha1Array sent by finish lists the recorded checksums in
\* ascending numeric part order.
C8_ArrayInPartOrder ==
    fin.issued =>
        /\ Len(fin.array) = Cardinality(DOMAIN partChecksums)
        /\ \A i \in 1..Len(fin.array) :
               fin.array[i] = partChecksums[NthPart(partChecksums, i)]

-----------------------------------------------------------------------------
(* Claims about File.uploadLarge *)

-----------------------------------------------------------------------------
(* Claims about the size test of the three upload methods *)

\* C11: whenever File.upload, uploadSingle or uploadLarge rejects the file
\* for its size (InvalidFileSizeError), that call has started neither the
\* single-shot nor the multipart upload: no request was issued for it.
C11_RejectBeforeNetwork ==
    up.outcome = InvalidFileSizeError =>
        /\ up.large # Started
        /\ up.single # Started

-----------------------------------------------------------------------------
(* Claims about the parts of File.uploadLarge *)

\* ceil(n / R)
NumParts(n, R) == (n + R - 1) \div R

\* The size of the i-th of the parts a stream of n bytes splits into.
PartSize(n, R, i) == IF i < NumParts(n, R) THEN R ELSE n - (NumParts(n, R) - 1) * R

NoHandlerFailed == \A h \in 1..MaxHandlers : handlers[h].pc # "failed"

\* The chunks read so far are the first parts of the stream, each of R bytes
\* except the last of the stream, which carries the rest.
ChunksAreParts ==
    /\ Len(chunks) <= NumParts(size, recommendedPartSize)
    /\ \A i \in 1..Len(chunks) :
           chunks[i] = PartSize(size, recommendedPartSize, i)

-----------------------------------------------------------------------------
(* Claims about upload targets and retries of the request pipeline *)

\* C14: once an upload attempt on an upload target (the upload URL of the
\* request) has failed, the client sends no further attempt to that target:
\* the failed request is not re-sent by the client itself.
C14_FailedTargetNotReused ==
    (req.url \in UploadUrls /\ Len(resps) >= 1 /\ resps[1] # Success) =>
        sends = 1

-----------------------------------------------------------------------------
(* Claims about the Session *)

C18_SessionAllOrNothing ==
    \/ /\ authorization.authorizationToken = 0
       /\ authorization.apiUrl = 0
       /\ authorization.downloadUrl = 0
    \/ /\ authorization.authorizationToken # 0
       /\ authorization.apiUrl # 0
       /\ authorization.downloadUrl # 0

\* C19: no request other than authorize is in flight while the Session holds
\* no token.
C19_NoRequestWhileUnauthorized ==
    (pc = "sent" /\ req.url # AUTHORIZE_URL) =>
        authorization.authorizationToken # 0

-----------------------------------------------------------------------------
(* Claims about listing the parts of an unfinished large file *)

\* Parts 1..k as b2_list_parts reports them.
StoredParts(k) ==
    [i \in 1..k |-> [partNumber |-> i, contentSha1 |-> Sha1(i)]]

FromTheBeginning(args) ==
    /\ args.given
    /\ args.fileId
    /\ args.startPartNumber \in {Undefined, Num(0), Num(1)}

\* Paging with listParts by hand from the beginning, each call starting at
\* the nextPartNumber of the page before, collects exactly parts 1..k.
PagingListPartsRoundTrip ==
    (lp.op = "listParts" /\ lp.pc = "done" /\ lp.result = "ok"
        /\ FromTheBeginning(lp.args)) =>
        lp.parts = StoredParts(uploaded)

\* C16: listAllParts called from the beginning for a file with parts 1..k
\* returns exactly those k parts, in part order, with their checksums.
C16_ListAllPartsRoundTrip ==
    (lp.op = "listAllParts" /\ lp.pc = "done" /\ FromTheBeginning(lp.args)) =>
        /\ lp.result = "ok"
        /\ lp.parts = StoredParts(uploaded)

-----------------------------------------------------------------------------
(* Claims about the retry mark, the headers and the typed errors *)

\* C29: the retry mark belongs to one request: a request is sent for the
\* first time unmarked, whatever happened to the calls before it; it is
\* marked only once its own first attempt was rejected with a token error;
\* and a call so rejected gets its own authorize call and, that succeeding,
\* its own single re-send, also after an earlier call was refreshed.
C29_RetryLimitPerRequest ==
    /\ (pc = "sent" /\ sends = 1) => ~req.retry
    /\ req.retry => (auths = 1 /\ FirstRejected)
    /\ (req.url # AUTHORIZE_URL /\ FirstRejected) =>
           /\ auths = 1
           /\ req.retry
           /\ (authResp = Success => sends = 2)

\* A second call was refreshed and re-sent after a first one had been.
C29_Witness ==
    /\ refreshed = 1
    /\ calls = 1
    /\ pc = "done"
    /\ FirstRejected
    /\ auths = 1
    /\ sends = 2
    /\ result = "ok"

\* C26: every b2_authorize_account request carries the credential header:
\* the one of a direct authorize call and the one of a refresh, also while
\* the Session still holds the rejected token.
C26_AuthorizeCarriesBasic ==
    /\ req.url = AUTHORIZE_URL =>
           \A i \in 1..Len(hdrs) : hdrs[i] = BasicHeader
    /\ auths >= 1 => authHdr = BasicHeader

\* A refresh is re-authorizing while the Session holds a token.
C26_Witness ==
    /\ pc = "authorizing"
    /\ authorization.authorizationToken # 0
    /\ authHdr = BasicHeader

\* C25: every request to an upload URL (part upload or single-shot upload)
\* carries an upload authorization token in its Authorization header, never
\* the account authorization token and never nothing.
C25_UploadCarriesLeaseToken ==
    req.url \in UploadUrls =>
        \A i \in 1..Len(hdrs) : hdrs[i].t = "lease"

\* A step in which an authorize request fails: a direct authorize call, or
\* the authorize call of a refresh, is answered by anything but a success.
AuthorizeFails ==
    \/ /\ pc = "sent"
       /\ req.url = AUTHORIZE_URL
       /\ Len(resps') = Len(resps) + 1
       /\ resps'[Len(resps')] # Success
    \/ /\ pc = "authorizing"
       /\ authResp = None
       /\ authResp' \notin {None, Success}

\* C30: a step in which an authorize request fails changes neither the
\* Session nor the client's baseURL.
C30_FailedAuthorizeKeepsSession ==
    [][AuthorizeFails =>
          /\ authorization' = authorization
          /\ baseURL' = baseURL]_vars

\* An authorize call has failed on a client that had been authorized before:
\* the Session of the earlier response is still in place.
C30_Witness ==
    /\ calls = 1
    /\ pc = "done"
    /\ req.url = AUTHORIZE_URL
    /\ result = "UnauthorizedError"
    /\ tokenSeq = 1
    /\ authorization = AuthData(1)
    /\ baseURL = 1

\* The failed response a finished call surfaces: the answer to the refresh's
\* authorize request when that failed, else the last answer to the request.
SurfacedFailure ==
    IF authResp \notin {None, Success} THEN authResp ELSE resps[Len(resps)]

SurfacedUrl ==
    IF authResp \notin {None, Success} THEN AUTHORIZE_URL ELSE req.url

\* The error type of the taxonomy for a structured failure, by status and
\* code; a 401 of the authorize request is an UnauthorizedError (C4).
TypedError(url, r) ==
    CASE r.status = BAD_REQUEST /\ r.code = "too_many_buckets"
             -> "TooManyBucketsError"
      [] r.status = BAD_REQUEST /\ r.code = "duplicate_bucket_name"
             -> "DuplicateBucketNameError"
      [] r.status = BAD_REQUEST
         /\ r.code \notin {"too_many_buckets", "duplicate_bucket_name"}
             -> "BadRequestError"
      [] r.status = UNAUTHORIZED /\ url # AUTHORIZE_URL
         /\ r.code = BAD_AUTH_TOKEN -> "BadAuthTokenError"
      [] r.status = UNAUTHORIZED /\ url # AUTHORIZE_URL
         /\ r.code = EXPIRED_AUTH_TOKEN -> "ExpiredAuthTokenError"
      [] r.status = UNAUTHORIZED
         /\ (url = AUTHORIZE_URL
             \/ r.code \notin {BAD_AUTH_TOKEN, EXPIRED_AUTH_TOKEN})
             -> "UnauthorizedError"
      [] r.status = FORBIDDEN /\ r.code = "cap_exceeded" -> "CapExceededError"
      [] r.status = FORBIDDEN /\ r.code = "storage_cap_exceeded"
             -> "StorageCapExceededError"
      [] r.status = FORBIDDEN
         /\ r.code \notin {"cap_exceeded", "storage_cap_exceeded"}
             -> "ForbiddenError"
      [] r.status = NOT_FOUND -> "NotFoundError"
      [] r.status = METHOD_NOT_ALLOWED -> "MethodNotAllowedError"
      [] r.status = REQUEST_TIMEOUT -> "RequestTimeoutError"
      [] r.status = SERVICE_UNAVAILABLE -> "ServiceUnavailableError"
      [] OTHER -> "B2RequestError"

\* C22: a call that ends with an error ends with the typed error of the
\* failed response it surfaces, given by that response's status and code;
\* a failure without a structured body is passed on as the original error.
C22_TypedErrors ==
    (pc = "done" /\ result # "ok") =>
        IF SurfacedFailure.code = NoCode
        THEN result = "AxiosError"
        ELSE result = TypedError(SurfacedUrl, SurfacedFailure)

C22_Witness ==
    /\ pc = "done"
    /\ req.url \in ApiUrls
    /\ resps = <<[status |-> BAD_REQUEST, code |-> "too_many_buckets"]>>
    /\ result = "TooManyBucketsError"

-----------------------------------------------------------------------------
(* Claims about the promise of File.uploadLarge *)

PagesFrom(k, startPartNumber, maxPartCount) ==
    LET from == IF startPartNumber < 1 THEN 1 ELSE startPartNumber
        left == IF k < from THEN 0 ELSE k - from + 1
    IN IF left <= maxPartCount THEN 1
       ELSE (left + maxPartCount - 1) \div maxPartCount

\* C27: listAllParts called for a file, with or without a startPartNumber,
\* ends because a page returned nextPartNumber null: it has then issued one
\* listParts request per page of the stored parts, finitely many, and no
\* error ended it earlier.
C27_ListAllPartsPagesUntilNull ==
    (lp.op = "listAllParts" /\ lp.args.given /\ lp.args.fileId
        /\ lp.args.startPartNumber # Null) =>
        /\ lp.pc = "done"
        /\ lp.result = "ok"
        /\ lp.requests = PagesFrom(uploaded,
                                   listParts(lp.args).startPartNumber,
                                   listParts(lp.args).maxPartCount)

-----------------------------------------------------------------------------
(* Claims about the argument tests and the credentials *)

\* The required parameters of each action, as the contract lists them.
Required(action) ==
    CASE action = "largeFile.start"            -> {"bucketId", "fileName"}
      [] action = "largeFile.getUploadPartUrl" -> {"fileId"}
      [] action = "largeFile.finish"           -> {"fileId"}
      [] action = "largeFile.cancel"           -> {"fileId"}
      [] action = "largeFile.listParts"        -> {"fileId"}
      [] action = "largeFile.uploadPart"       ->
             {"uploadUrl", "authorizationToken", "partNumber", "data"}
      [] action = "key.create"                 -> {"keyName", "capabilities"}
      [] action = "bucket.delete"              -> {"bucketId"}

MissingRequired ==
    /\ act.action # "none"
    /\ \/ ~act.args.given
       \/ \E p \in Required(act.action) : p \notin act.args.has

\* C21: an action called with a missing required parameter rejects with
\* InvalidArgumentError and has issued no network request.
C21_MissingParameterRejectedLocally ==
    MissingRequired =>
        /\ act.pc = "done"
        /\ act.result = InvalidArgumentError
        /\ act.requests = 0

\* uploadPart was called with everything but the authorizationToken and
\* was rejected.
C21_Witness ==
    /\ act.action = "largeFile.uploadPart"
    /\ act.args.given
    /\ act.args.has = {"uploadUrl", "partNumber", "data"}
    /\ act.pc = "done"
    /\ act.result = InvalidArgumentError

\* C23: new B2(credentials) succeeds when both applicationKeyId and
\* applicationKey are non-empty, and ends with InvalidCredentialsError
\* exactly when credentials are given and one of the two is missing.
C23_CredentialsAcceptedIffBoth ==
    cred.op = "new B2" =>
        /\ (cred.credentials.applicationKeyId /\ cred.credentials.applicationKey)
               => cred.result = "ok"
        /\ cred.result = InvalidCredentialsError
               <=> /\ cred.credentials.given
                   /\ \/ ~cred.credentials.applicationKeyId
                      \/ ~cred.credentials.applicationKey

\* getAccountAuthorizationHeader does what C23 states of the constructor.
HeaderRejectsIffMissing ==
    cred.op = "getAccountAuthorizationHeader" =>
        (cred.result = InvalidCredentialsError
            <=> \/ ~cred.credentials.given
                \/ ~cred.credentials.applicationKeyId
                \/ ~cred.credentials.applicationKey)

-----------------------------------------------------------------------------
(* Claims about KeyActions.listAll *)

RECURSIVE Concat(_)
Concat(pages) ==
    IF pages = <<>> THEN <<>> ELSE Head(pages) \o Concat(Tail(pages))

\* C24: listAll issues one b2_list_keys request per page; each request after
\* the first starts at the nextApplicationKeyId of the page before; no page
\* before the last had a null nextApplicationKeyId and the last one has;
\* and the keys returned are the keys of the pages in page order.
C24_ListAllFollowsCursor ==
    /\ (kl.op = "listAll" /\ kl.pc = "sent") =>
           /\ kl.requests = Len(kl.pages) + 1
           /\ \A i \in 1..Len(kl.nexts) : kl.nexts[i] # Null
    /\ (kl.op = "listAll" /\ kl.pc = "done" /\ kl.result = "ok") =>
           /\ kl.requests = Len(kl.pages)
           /\ Len(kl.cursors) = kl.requests
           /\ Len(kl.nexts) = kl.requests
           /\ \A i \in 2..kl.requests :
                  kl.cursors[i] = kl.nexts[i - 1]
           /\ \A i \in 1..(kl.requests - 1) : kl.nexts[i] # Null
           /\ kl.nexts[kl.requests] = Null
           /\ kl.keys = Concat(kl.pages)

\* listAll returned the three keys of the account from three pages.
C24_Witness ==
    /\ kl.op = "listAll"
    /\ kl.pc = "done"
    /\ kl.result = "ok"
    /\ kl.requests = 3
    /\ kl.keys = <<KeyId(1), KeyId(2), KeyId(3)>>

====
